---- MODULE Spec2Model ----
(***************************************************************************)
(* javanicus: a FUSE filesystem over WebHDFS (src/javanicus.py).           *)
(*                                                                         *)
(* The model has the remote namespace (hdfs), the adapter's dictionary of  *)
(* open temp copies (self._tmpfiles), the local temp files under TMPDIR    *)
(* (disk), and a record of the last upcall with the WebHDFS client calls   *)
(* and HTTP requests it issued.  FUSE runs with nothreads=True (line 773), *)
(* so every upcall is one atomic step.                                     *)
(*                                                                         *)
(* The position of a temp file handle is not part of the state: every      *)
(* handler seeks before it reads or writes (lines 399, 439, 446, 495) and  *)
(* fsync restores the position it found (lines 396, 403).  What a handle   *)
(* has written and not yet handed to the file is part of the state         *)
(* (fh.buffer): disk is each temp file as its handle reads it, and the     *)
(* buffer tells which of those bytes the file gets only when the handle    *)
(* seeks, truncates, is closed or is finalised.                            *)
(*                                                                         *)
(* A failure of the remote other than 404 stops the client in a debugger   *)
(* (line 78); each answer of the remote carries how that stop ends (ipdb). *)
(*                                                                         *)
(* Spec is the filesystem under any sequence of upcalls.  SpecScript runs  *)
(* one create / write / release / open / read script (script), SpecAccess  *)
(* applies access and SpecPermission applies create to every input drawn   *)
(* into probe.                                                             *)
(***************************************************************************)
EXTENDS Integers, Sequences, FiniteSets, TLC

VARIABLES hdfs, tmpfiles, disk, upcall, calls, http, script, probe

vars == <<hdfs, tmpfiles, disk, upcall, calls, http, script, probe>>

----------------------------------------------------------------------------
(* Bounds and input sets *)

\* longest file content, in bytes
MaxLen == 1

Paths == {"/a", "/b"}

\* byte values; 0 is the NUL byte a hole is filled with
Bytes == {0, 1}

Contents == UNION {[1..n -> Bytes] : n \in 0..MaxLen}

\* "/a" is the file under study: it takes every content up to MaxLen bytes.
\* "/b" is a second file, there for what an upcall on one path does to
\* another: it is empty or holds the one byte 1.
LenOf(path) == IF path = "/a" THEN MaxLen ELSE 1

DataOf(path) == IF path = "/a" THEN Contents ELSE {<<>>, <<1>>}

----------------------------------------------------------------------------
(* Byte strings *)

Min(a, b) == IF a < b THEN a ELSE b

Zeros(n) == [i \in 1..n |-> 0]

\* file.read(size) at position offset: short at end of file
ReadAt(s, offset, size) == SubSeq(s, offset + 1, Min(offset + size, Len(s)))

\* file.write(data) at position offset: a hole before offset reads as NUL;
\* a write of no bytes leaves the file as it is, whatever the position
WriteAt(s, offset, data) ==
    LET n == IF offset + Len(data) > Len(s) THEN offset + Len(data) ELSE Len(s)
    IN  IF data = <<>> THEN s
        ELSE [i \in 1..n |->
                 IF i > offset /\ i <= offset + Len(data) THEN data[i - offset]
                 ELSE IF i <= Len(s) THEN s[i]
                 ELSE 0]

\* file.truncate(length): cut, or extend with NUL bytes (ftruncate)
TruncateTo(s, length) ==
    IF length <= Len(s) THEN SubSeq(s, 1, length)
    ELSE s \o Zeros(length - Len(s))

----------------------------------------------------------------------------
(* Integers as bit masks *)

RECURSIVE BitAnd(_, _)
BitAnd(a, b) ==
    IF a = 0 \/ b = 0 THEN 0
    ELSE (a % 2) * (b % 2) + 2 * BitAnd(a \div 2, b \div 2)

RECURSIVE BitOr(_, _)
BitOr(a, b) ==
    IF a = 0 THEN b
    ELSE IF b = 0 THEN a
    ELSE (IF a % 2 = 1 \/ b % 2 = 1 THEN 1 ELSE 0)
             + 2 * BitOr(a \div 2, b \div 2)

\* int(s, 8) of a string of octal digits
RECURSIVE ParseOct(_)
ParseOct(s) ==
    IF s = <<>> THEN 0
    ELSE 8 * ParseOct(SubSeq(s, 1, Len(s) - 1)) + s[Len(s)]

----------------------------------------------------------------------------
(* HTTP responses *)

NoMessage == <<>>

\* what becomes of the debugger stop the client makes on a failure that is
\* not a 404 (import ipdb; ipdb.set_trace(), line 78): the import fails
\* (setup.py does not install ipdb), the operator quits the debugger, or the
\* operator lets the program continue into the raise of line 79
IpdbOutcomes == {"ImportError", "BdbQuit", "WebHDFSError"}

\* what the client reads of a response: the status line, the RemoteException
\* of an error body, the Location header, the "boolean" of a JSON body.
\* ipdb is not of the response: it is the outcome of the debugger stop when
\* the client handles this response, here the one of an installation as
\* setup.py makes it.
Response(status, exception, message, location, boolean) ==
    [status |-> status, exception |-> exception, message |-> message,
     location |-> location, boolean |-> boolean, ipdb |-> "ImportError"]

\* the same response under each outcome of the debugger stop
Debugged(response) == {[response EXCEPT !.ipdb = o] : o \in IpdbOutcomes}

\* no fault injected: the remote answers from its own state
NoFault == Response(0, "", NoMessage, FALSE, FALSE)

\* an injected answer; a record of status 0 injects none, and only says how
\* the debugger stop ends should the remote's own answer be a failure
IsFault(f) == f.status # 0

\* the remote's own answer, handled under the debugger outcome of f
Natural(response, f) == [response EXCEPT !.ipdb = f.ipdb]

R200 == Response(200, "", NoMessage, FALSE, FALSE)
R200True == Response(200, "", NoMessage, FALSE, TRUE)
R200False == Response(200, "", NoMessage, FALSE, FALSE)
\* 201 Created carries the Location of the created file (lines 196-197)
R201 == Response(201, "", NoMessage, TRUE, FALSE)
R307 == Response(307, "", NoMessage, TRUE, FALSE)
R307NoLocation == Response(307, "", NoMessage, FALSE, FALSE)
R404 == Response(404, "FileNotFoundException",
                 <<"File does not exist">>, FALSE, FALSE)
R403Exists == Response(403, "FileAlreadyExistsException",
                       <<"failed to create file">>, FALSE, FALSE)
R403Access == Response(403, "AccessControlException",
                       <<"Permission denied">>, FALSE, FALSE)
R403NonEmpty == Response(403, "IOException",
                         <<"/dir", " is non empty">>, FALSE, FALSE)
R500 == Response(500, "", NoMessage, FALSE, FALSE)

\* failures the remote may answer with whatever its state: a 403 under each
\* outcome of the debugger stop, and a 500
Faults == Debugged(R403Access) \cup {R500}

----------------------------------------------------------------------------
(* class WebHDFS *)

NoError == "none"

\* requests.Response.raise_for_status raises for 4xx and 5xx; the handler
\* turns 404 into WebHDFSFileNotFoundError.  On any other failure it logs
\* and stops in the debugger (line 78) before the raise of WebHDFSError
\* (line 79): what is raised is ImportError, BdbQuit or WebHDFSError, as
\* the debugger stop ends.
_raise_and_log_for_status(response) ==
    IF response.status >= 400 /\ response.status < 600
    THEN IF response.status = 404
         THEN "WebHDFSFileNotFoundError"
         ELSE response.ipdb
    ELSE NoError

RECURSIVE OctDigits(_)
OctDigits(n) == IF n = 0 THEN <<>> ELSE Append(OctDigits(n \div 8), n % 8)

\* Python 2 oct(): a leading "0", then the octal digits ("0" for zero)
oct(n) == <<0>> \o OctDigits(n)

NoPermission == <<>>

Request(method, target, op, path, overwrite, permission, redirects, data, response) ==
    [method |-> method, target |-> target, op |-> op, path |-> path,
     overwrite |-> overwrite, permission |-> permission,
     allow_redirects |-> redirects, data |-> data,
     response |-> response]

\* a call of a client method: its arguments, the exception it raised (or
\* NoError), the value it returned and how many requests it sent
Call(name, path, data, exc, rv, sent) ==
    [name |-> name, path |-> path, data |-> data, exc |-> exc, rv |-> rv,
     sent |-> sent]

File(content) == [type |-> "FILE", content |-> content]

\* outcome of a client call: the exception raised (or NoError), the value
\* returned, the remote namespace afterwards and the requests sent
Outcome(name, path, data, exc, rv, content, h, requests) ==
    [exc |-> exc, rv |-> rv, content |-> content, hdfs |-> h,
     calls |-> <<Call(name, path, data, exc, rv, Len(requests))>>,
     http |-> requests]

\* PUT op=CREATE, redirect followed by the session: creates an empty file,
\* refused by the remote when the file is there (no overwrite parameter)
WebHDFS_create(h, path, permissions, f) ==
    LET response == IF IsFault(f) THEN f
                    ELSE IF path \in DOMAIN h
                    THEN Natural(R403Exists, f) ELSE R201
        exc == _raise_and_log_for_status(response)
        request == Request("PUT", "namenode", "CREATE", path, "",
                           oct(permissions), TRUE, <<>>, response)
    IN  Outcome("create", path, <<>>, exc, 0, <<>>,
                IF ~IsFault(f) /\ exc = NoError
                THEN (path :> File(<<>>)) @@ h ELSE h,
                <<request>>)

\* DELETE op=DELETE: the body's boolean says whether anything was deleted
WebHDFS_delete(h, path, f) ==
    LET response == IF IsFault(f) THEN f
                    ELSE IF path \in DOMAIN h
                    THEN R200True ELSE R200False
        raised == _raise_and_log_for_status(response)
        exc == IF raised # NoError THEN raised
               ELSE IF ~(response.boolean = TRUE) THEN "IOError"
               ELSE NoError
        request == Request("DELETE", "namenode", "DELETE", path, "",
                           NoPermission, TRUE, <<>>, response)
    IN  Outcome("delete", path, <<>>, exc, 0, <<>>,
                IF ~IsFault(f)
                THEN [p \in DOMAIN h \ {path} |-> h[p]] ELSE h,
                <<request>>)

\* GET op=OPEN, redirect followed by the session: the whole file
WebHDFS_get(h, path, f) ==
    LET response == IF IsFault(f) THEN f
                    ELSE IF path \in DOMAIN h
                    THEN R200 ELSE R404
        exc == _raise_and_log_for_status(response)
        request == Request("GET", "namenode", "OPEN", path, "",
                           NoPermission, TRUE, <<>>, response)
        content == IF exc = NoError THEN h[path].content ELSE <<>>
    IN  Outcome("get", path, <<>>, exc, 0, content, h, <<request>>)

\* what the remote keeps of a path besides its type and length, as the
\* FileStatus of a GETFILESTATUS answer carries it
Attributes(permission, owner, group) ==
    [permission |-> permission, owner |-> owner, group |-> group]

FileStatus(type, length, attributes) ==
    [type |-> type, length |-> length,
     permission |-> attributes.permission, owner |-> attributes.owner,
     group |-> attributes.group]

NoFileStatus == FileStatus("", 0, Attributes(<<>>, "", ""))

\* GET op=GETFILESTATUS: the FileStatus of the JSON body
WebHDFS_getattr(h, path, attributes, f) ==
    LET response == IF IsFault(f) THEN f
                    ELSE IF path \in DOMAIN h
                    THEN R200 ELSE R404
        exc == _raise_and_log_for_status(response)
        request == Request("GET", "namenode", "GETFILESTATUS", path, "",
                           NoPermission, TRUE, <<>>, response)
        status == IF exc = NoError
                  THEN FileStatus(h[path].type, Len(h[path].content),
                                  attributes)
                  ELSE NoFileStatus
    IN  [exc |-> exc, rv |-> 0, content |-> <<>>, hdfs |-> h,
         calls |-> <<Call("getattr", path, <<>>, exc, 0, 1)>>,
         http |-> <<request>>, status |-> status]

\* faulty variant of put: the payload is sent although the namenode's answer
\* carries no Location
WebHDFS_put_unchecked_location(h, path, data, f1, f2) ==
    LET s1_response == IF IsFault(f1) THEN f1 ELSE R307
        s1 == Request("PUT", "namenode", "CREATE", path, "true",
                      NoPermission, FALSE, <<>>, s1_response)
        s1_exc == _raise_and_log_for_status(s1_response)
        s2_response == IF IsFault(f2) THEN f2 ELSE R201
        s2 == Request("PUT", "datanode", "CREATE", path, "",
                      NoPermission, TRUE, data, s2_response)
        s2_exc == _raise_and_log_for_status(s2_response)
    IN  IF s1_exc # NoError
        THEN Outcome("put", path, data, s1_exc, 0, <<>>, h, <<s1>>)
        ELSE Outcome("put", path, data, s2_exc,
                     IF s2_exc = NoError THEN Len(data) ELSE 0, <<>>,
                     IF ~IsFault(f2) THEN (path :> File(data)) @@ h ELSE h,
                     <<s1, s2>>)

\* the two steps of a write: PUT op=CREATE&overwrite=true to the namenode
\* without following the redirect, then PUT of the data to its Location
WebHDFS_put(h, path, data, f1, f2) ==
    LET s1_response == IF IsFault(f1) THEN f1 ELSE R307
        s1 == Request("PUT", "namenode", "CREATE", path, "true",
                      NoPermission, FALSE, <<>>, s1_response)
        s1_exc == _raise_and_log_for_status(s1_response)
        s2_response == IF IsFault(f2) THEN f2 ELSE R201
        s2 == Request("PUT", "datanode", "CREATE", path, "",
                      NoPermission, TRUE, data, s2_response)
        s2_exc == _raise_and_log_for_status(s2_response)
    IN  IF s1_exc # NoError
        THEN Outcome("put", path, data, s1_exc, 0, <<>>, h, <<s1>>)
        ELSE IF ~s1_response.location
        THEN Outcome("put", path, data, "EIO", 0, <<>>, h, <<s1>>)
        ELSE Outcome("put", path, data, s2_exc,
                     IF s2_exc = NoError THEN Len(data) ELSE 0, <<>>,
                     IF ~IsFault(f2) THEN (path :> File(data)) @@ h ELSE h,
                     <<s1, s2>>)

\* PUT op=RENAME&destination=new: the body's boolean says whether the
\* remote renamed; it renames a path that is there to a path that is not
WebHDFS_rename(h, old, new, f) ==
    LET renames == old \in DOMAIN h /\ new \notin DOMAIN h
        response == IF IsFault(f) THEN f
                    ELSE IF renames
                    THEN R200True ELSE R200False
        raised == _raise_and_log_for_status(response)
        exc == IF raised # NoError THEN raised
               ELSE IF ~response.boolean THEN "EREMOTEIO"
               ELSE NoError
        request == Request("PUT", "namenode", "RENAME", old, "",
                           NoPermission, TRUE, <<>>, response)
    IN  Outcome("rename", old, <<>>, exc, 0, <<>>,
                IF ~IsFault(f) /\ renames
                THEN (new :> h[old]) @@ [p \in DOMAIN h \ {old} |-> h[p]]
                ELSE h,
                <<request>>)

----------------------------------------------------------------------------
(* class Javanicus *)

TMPDIR == "/var/tmp/javanicus"

\* os.path.join(TMPDIR, path.lstrip('/'))
_tmp_path(path) == <<TMPDIR, path>>

S_IMODE(mode) == mode % 4096

\* stat.S_IFDIR, stat.S_IFREG, stat.S_IFLNK
MODE_FLAGS ==
    ("DIRECTORY" :> 16384) @@ ("FILE" :> 32768) @@ ("SYMLINK" :> 40960)

\* the stat record getattr hands to FUSE
Stat(st_mode, st_uid, st_gid, st_size) ==
    [st_mode |-> st_mode, st_uid |-> st_uid, st_gid |-> st_gid,
     st_size |-> st_size]

NoStat == Stat(0, 0, 0, 0)

\* what a handler leaves behind: the error it raised (or NoError), the
\* bytes, the number or the stat record it returned, and the state after it
Result(err, ret, rv, tf, dk, h, cs, rq) ==
    [err |-> err, ret |-> ret, rv |-> rv, st |-> NoStat, tmpfiles |-> tf,
     disk |-> dk, hdfs |-> h, calls |-> cs, http |-> rq]

\* the local user and group databases (pwd, grp)
passwd == ("alice" :> 1000) @@ ("bob" :> 2000)

groups == ("staff" :> 1000) @@ ("users" :> 2000)

\* grp.getgrnam(group).gr_gid, 0 when there is no such group
_gid(name) == IF name \in DOMAIN groups THEN groups[name] ELSE 0

\* pwd.getpwnam(user).pw_uid, 0 when there is no such user
_uid(name) == IF name \in DOMAIN passwd THEN passwd[name] ELSE 0

\* self._tmpfiles[path] of a path that has no entry
KeyError(path) ==
    Result("KeyError", <<>>, 0, tmpfiles, disk, hdfs, <<>>, <<>>)

\* The bytes of the last file.write of a handle stay in the handle's buffer
\* (the writes here are shorter than the buffer) until the handle seeks,
\* truncates, or is closed or finalised: offset is the position they were
\* written at.  disk has them already, as the handle reads the file.
Buffer(offset, data) ==
    IF data = <<>> THEN [offset |-> 0, data |-> <<>>]
    ELSE [offset |-> offset, data |-> data]

NoBuffer == Buffer(0, <<>>)

\* open(tmp_path, 'w+b') creates or empties the temp file (line 271); the
\* entry replaces whatever entry the path had (line 272), and the handle of
\* a replaced entry, finalised there, writes the bytes of its buffer into
\* the file just emptied, at the position it had written them
_open_tmpfile(tf, dk, path) ==
    LET left == IF path \in DOMAIN tf THEN tf[path].fh.buffer ELSE NoBuffer
    IN  [tmpfiles |-> (path :> [fh |-> [name |-> _tmp_path(path),
                                        closed |-> FALSE,
                                        buffer |-> NoBuffer],
                                path |-> _tmp_path(path),
                                dirty |-> FALSE]) @@ tf,
         disk |-> (_tmp_path(path) :> WriteAt(<<>>, left.offset, left.data))
                      @@ dk]

\* faulty variant of getattr: every error of the remote is taken for a
\* missing path
getattr_all_enoent(path, attributes, f) ==
    LET a == WebHDFS_getattr(hdfs, path, attributes, f)
    IN  IF a.exc # NoError
        THEN Result("ENOENT", <<>>, 0, tmpfiles, disk, a.hdfs, a.calls,
                    a.http)
        ELSE [Result(NoError, <<>>, 0, tmpfiles, disk, a.hdfs, a.calls,
                     a.http)
                 EXCEPT !.st =
                     Stat(BitOr(ParseOct(a.status.permission),
                                MODE_FLAGS[a.status.type]),
                          _uid(a.status.owner), _gid(a.status.group),
                          a.status.length)]

\* the remote's FileStatus as a stat record; a missing path is ENOENT, any
\* other error of the remote propagates.  The two timestamps of the record
\* (milliseconds turned into seconds) are left out.
getattr(path, attributes, f) ==
    LET a == WebHDFS_getattr(hdfs, path, attributes, f)
    IN  IF a.exc = "WebHDFSFileNotFoundError"
        THEN Result("ENOENT", <<>>, 0, tmpfiles, disk, a.hdfs, a.calls,
                    a.http)
        ELSE IF a.exc # NoError
        THEN Result(a.exc, <<>>, 0, tmpfiles, disk, a.hdfs, a.calls, a.http)
        ELSE [Result(NoError, <<>>, 0, tmpfiles, disk, a.hdfs, a.calls,
                     a.http)
                 EXCEPT !.st =
                     Stat(BitOr(ParseOct(a.status.permission),
                                MODE_FLAGS[a.status.type]),
                          _uid(a.status.owner), _gid(a.status.group),
                          a.status.length)]

\* os.R_OK, os.W_OK, os.X_OK to the stat.S_I[RWX]{USR,GRP,OTH} bits
bits_to_consider ==
    (4 :> [user |-> 256, group |-> 32, other |-> 4]) @@
    (2 :> [user |-> 128, group |-> 16, other |-> 2]) @@
    (1 :> [user |-> 64, group |-> 8, other |-> 1])

\* faulty variant of access: only the closest class of the caller (user,
\* else group, else other) is looked at
access_closest_class(path, amode, uid, gid, attributes, f) ==
    LET status == getattr(path, attributes, f)
        mode == status.st.st_mode
        bits_requested == {b \in {4, 2, 1} : BitAnd(b, amode) # 0}
        ugo == IF uid = status.st.st_uid THEN "user"
               ELSE IF gid = status.st.st_gid THEN "group"
               ELSE "other"
        refused ==
            \E bit \in bits_requested :
                BitAnd(bits_to_consider[bit][ugo], mode) = 0
    IN  IF status.err # NoError THEN status
        ELSE IF refused
        THEN [status EXCEPT !.err = "EACCES", !.st = NoStat]
        ELSE [status EXCEPT !.st = NoStat]

\* uid and gid are the caller's, from fuse_get_context()
access(path, amode, uid, gid, attributes, f) ==
    LET status == getattr(path, attributes, f)
        mode == status.st.st_mode
        bits_requested == {b \in {4, 2, 1} : BitAnd(b, amode) # 0}
        ugo_matches ==
            {"other"}
            \cup (IF gid = status.st.st_gid THEN {"group"} ELSE {})
            \cup (IF uid = status.st.st_uid THEN {"user"} ELSE {})
        refused ==
            \E bit \in bits_requested :
                \A ugo \in ugo_matches :
                    BitAnd(bits_to_consider[bit][ugo], mode) = 0
    IN  IF status.err # NoError THEN status
        ELSE IF refused
        THEN [status EXCEPT !.err = "EACCES", !.st = NoStat]
        ELSE [status EXCEPT !.st = NoStat]

create(path, mode, f) ==
    LET permissions == S_IMODE(mode)
        c == WebHDFS_create(hdfs, path, permissions, f)
        t == _open_tmpfile(tmpfiles, disk, path)
    IN  IF c.exc # NoError
        THEN Result(c.exc, <<>>, 0, tmpfiles, disk, c.hdfs, c.calls, c.http)
        ELSE Result(NoError, <<>>, c.rv, t.tmpfiles, t.disk, c.hdfs,
                    c.calls, c.http)

\* faulty variant of fsync: no seek(0) before the read, so the push starts
\* at the position the last write left, the end of what it wrote
fsync_without_rewind(path, f1, f2) ==
    IF path \notin DOMAIN tmpfiles THEN KeyError(path)
    ELSE IF tmpfiles[path].dirty
    THEN LET whole == disk[tmpfiles[path].path]
             data == SubSeq(whole, Len(whole) + 1, Len(whole))
             p == WebHDFS_put(hdfs, path, data, f1, f2)
         IN  IF p.exc # NoError
             THEN Result(p.exc, <<>>, 0,
                         [tmpfiles EXCEPT ![path].fh.buffer = NoBuffer],
                         disk, p.hdfs, p.calls, p.http)
             ELSE Result(NoError, <<>>, 0,
                         [tmpfiles EXCEPT ![path].fh.buffer = NoBuffer,
                                          ![path].dirty = FALSE],
                         disk, p.hdfs, p.calls, p.http)
    ELSE Result(NoError, <<>>, 0, tmpfiles, disk, hdfs, <<>>, <<>>)

\* faulty variant of fsync: the push does not depend on the dirty flag
fsync_always_pushes(path, f1, f2) ==
    IF path \notin DOMAIN tmpfiles THEN KeyError(path)
    ELSE LET data == disk[tmpfiles[path].path]
             p == WebHDFS_put(hdfs, path, data, f1, f2)
         IN  IF p.exc # NoError
             THEN Result(p.exc, <<>>, 0,
                         [tmpfiles EXCEPT ![path].fh.buffer = NoBuffer],
                         disk, p.hdfs, p.calls, p.http)
             ELSE Result(NoError, <<>>, 0,
                         [tmpfiles EXCEPT ![path].fh.buffer = NoBuffer,
                                          ![path].dirty = FALSE],
                         disk, p.hdfs, p.calls, p.http)

\* faulty variant of fsync: the dirty flag is cleared before the put, so a
\* put that fails leaves a clean entry
fsync_clears_first(path, f1, f2) ==
    IF path \notin DOMAIN tmpfiles THEN KeyError(path)
    ELSE IF tmpfiles[path].dirty
    THEN LET data == disk[tmpfiles[path].path]
             p == WebHDFS_put(hdfs, path, data, f1, f2)
         IN  Result(p.exc, <<>>, 0,
                    [tmpfiles EXCEPT ![path].fh.buffer = NoBuffer,
                                     ![path].dirty = FALSE],
                    disk, p.hdfs, p.calls, p.http)
    ELSE Result(NoError, <<>>, 0, tmpfiles, disk, hdfs, <<>>, <<>>)

\* pushes the whole temp file when the entry is dirty; the seek before the
\* read (line 399) empties the handle's buffer, whatever the put does
fsync(path, f1, f2) ==
    IF path \notin DOMAIN tmpfiles THEN KeyError(path)
    ELSE IF tmpfiles[path].dirty
    THEN LET data == disk[tmpfiles[path].path]
             p == WebHDFS_put(hdfs, path, data, f1, f2)
         IN  IF p.exc # NoError
             THEN Result(p.exc, <<>>, 0,
                         [tmpfiles EXCEPT ![path].fh.buffer = NoBuffer],
                         disk, p.hdfs, p.calls, p.http)
             ELSE Result(NoError, <<>>, 0,
                         [tmpfiles EXCEPT ![path].fh.buffer = NoBuffer,
                                          ![path].dirty = FALSE],
                         disk, p.hdfs, p.calls, p.http)
    ELSE Result(NoError, <<>>, 0, tmpfiles, disk, hdfs, <<>>, <<>>)

flush(path, f1, f2) == fsync(path, f1, f2)

\* faulty variant of open: the fetched content goes in the way written
\* bytes do, and marks the entry
open_marks_dirty(path, flags, f) ==
    IF path \in DOMAIN tmpfiles
    THEN Result("EIO", <<>>, 0, tmpfiles, disk, hdfs, <<>>, <<>>)
    ELSE LET t == _open_tmpfile(tmpfiles, disk, path)
             g == WebHDFS_get(hdfs, path, f)
         IN  IF g.exc # NoError
             THEN Result(g.exc, <<>>, 0, t.tmpfiles, t.disk, g.hdfs,
                         g.calls, g.http)
             ELSE Result(NoError, <<>>, 0,
                         [t.tmpfiles EXCEPT ![path].dirty = TRUE],
                         [t.disk EXCEPT ![_tmp_path(path)] =
                              WriteAt(@, 0, g.content)],
                         g.hdfs, g.calls, g.http)

\* faulty variant of open: no single-open check
open_unchecked(path, flags, f) ==
    LET t == _open_tmpfile(tmpfiles, disk, path)
        g == WebHDFS_get(hdfs, path, f)
    IN  IF g.exc # NoError
        THEN Result(g.exc, <<>>, 0, t.tmpfiles, t.disk, g.hdfs,
                    g.calls, g.http)
        ELSE Result(NoError, <<>>, 0, t.tmpfiles,
                    [t.disk EXCEPT ![_tmp_path(path)] =
                         WriteAt(@, 0, g.content)],
                    g.hdfs, g.calls, g.http)

\* faulty variant of open: the fetched content is not written to the temp
\* file
open_without_fill(path, flags, f) ==
    IF path \in DOMAIN tmpfiles
    THEN Result("EIO", <<>>, 0, tmpfiles, disk, hdfs, <<>>, <<>>)
    ELSE LET t == _open_tmpfile(tmpfiles, disk, path)
             g == WebHDFS_get(hdfs, path, f)
         IN  Result(g.exc, <<>>, 0, t.tmpfiles, t.disk, g.hdfs,
                    g.calls, g.http)

open(path, flags, f) ==
    IF path \in DOMAIN tmpfiles
    THEN Result("EIO", <<>>, 0, tmpfiles, disk, hdfs, <<>>, <<>>)
    ELSE LET t == _open_tmpfile(tmpfiles, disk, path)
             g == WebHDFS_get(hdfs, path, f)
         IN  IF g.exc # NoError
             THEN Result(g.exc, <<>>, 0, t.tmpfiles, t.disk, g.hdfs,
                         g.calls, g.http)
             ELSE Result(NoError, <<>>, 0, t.tmpfiles,
                         [t.disk EXCEPT ![_tmp_path(path)] =
                              WriteAt(@, 0, g.content)],
                         g.hdfs, g.calls, g.http)

\* the seek (line 446) empties the handle's buffer
read(path, size, offset) ==
    IF path \notin DOMAIN tmpfiles THEN KeyError(path)
    ELSE Result(NoError, ReadAt(disk[tmpfiles[path].path], offset, size), 0,
                [tmpfiles EXCEPT ![path].fh.buffer = NoBuffer],
                disk, hdfs, <<>>, <<>>)

\* faulty variant of release: the temp copy is closed and removed also when
\* the push fails, and the entry then stays
release_cleans_on_failure(path, f1, f2) ==
    LET s == fsync(path, f1, f2)
    IN  IF s.err # NoError
        THEN [s EXCEPT
                !.tmpfiles = [@ EXCEPT ![path].fh.closed = TRUE],
                !.disk = [t \in DOMAIN s.disk \ {s.tmpfiles[path].path} |->
                              s.disk[t]]]
        ELSE [s EXCEPT
                !.tmpfiles = [p \in DOMAIN s.tmpfiles \ {path} |->
                                  s.tmpfiles[p]],
                !.disk = [t \in DOMAIN s.disk \ {s.tmpfiles[path].path} |->
                              s.disk[t]]]

\* fsync, then close and remove the temp copy and drop the entry
release(path, f1, f2) ==
    LET s == fsync(path, f1, f2)
    IN  IF s.err # NoError THEN s
        ELSE [s EXCEPT
                !.tmpfiles = [p \in DOMAIN s.tmpfiles \ {path} |->
                                  s.tmpfiles[p]],
                !.disk = [t \in DOMAIN s.disk \ {s.tmpfiles[path].path} |->
                              s.disk[t]]]

\* file.truncate flushes the handle's buffer before it cuts or extends
truncate(path, length) ==
    IF path \notin DOMAIN tmpfiles THEN KeyError(path)
    ELSE Result(NoError, <<>>, 0,
                [tmpfiles EXCEPT ![path].fh.buffer = NoBuffer],
                [disk EXCEPT ![tmpfiles[path].path] = TruncateTo(@, length)],
                hdfs, <<>>, <<>>)

unlink(path, f) ==
    LET d == WebHDFS_delete(hdfs, path, f)
    IN  Result(d.exc, <<>>, d.rv, tmpfiles, disk, d.hdfs, d.calls, d.http)

\* what rename's GETFILESTATUS of the target answers besides type and
\* length; rename does not look at it
AnyAttributes == Attributes(<<6, 4, 4>>, "hdfs", "supergroup")

\* faulty variant of rename: no assertion on the cache
rename_unasserted(old, new, f1, f2, f3) ==
    LET a == WebHDFS_getattr(hdfs, new, AnyAttributes, f1)
        u == unlink(new, f2)
        h == IF a.exc = NoError THEN u.hdfs ELSE hdfs
        before == IF a.exc = NoError THEN a.calls \o u.calls ELSE a.calls
        sent == IF a.exc = NoError THEN a.http \o u.http ELSE a.http
        r == WebHDFS_rename(h, old, new, f3)
    IN  IF a.exc \notin {NoError, "WebHDFSFileNotFoundError"}
        THEN Result(a.exc, <<>>, 0, tmpfiles, disk, hdfs, a.calls, a.http)
        ELSE IF a.exc = NoError /\ u.err # NoError
        THEN Result(u.err, <<>>, 0, tmpfiles, disk, u.hdfs, before, sent)
        ELSE Result(r.exc, <<>>, r.rv, tmpfiles, disk, r.hdfs,
                    before \o r.calls, sent \o r.http)

\* a target that is there is unlinked first; then the remote renames
rename(old, new, f1, f2, f3) ==
    IF old \in DOMAIN tmpfiles \/ new \in DOMAIN tmpfiles
    THEN Result("AssertionError", <<>>, 0, tmpfiles, disk, hdfs, <<>>, <<>>)
    ELSE LET a == WebHDFS_getattr(hdfs, new, AnyAttributes, f1)
             u == unlink(new, f2)
             h == IF a.exc = NoError THEN u.hdfs ELSE hdfs
             before == IF a.exc = NoError THEN a.calls \o u.calls
                                          ELSE a.calls
             sent == IF a.exc = NoError THEN a.http \o u.http ELSE a.http
             r == WebHDFS_rename(h, old, new, f3)
         IN  IF a.exc \notin {NoError, "WebHDFSFileNotFoundError"}
             THEN Result(a.exc, <<>>, 0, tmpfiles, disk, hdfs, a.calls,
                         a.http)
             ELSE IF a.exc = NoError /\ u.err # NoError
             THEN Result(u.err, <<>>, 0, tmpfiles, disk, u.hdfs, before,
                         sent)
             ELSE Result(r.exc, <<>>, r.rv, tmpfiles, disk, r.hdfs,
                         before \o r.calls, sent \o r.http)

\* the seek (line 495) empties the handle's buffer of an earlier write; the
\* bytes of this one stay in it
write(path, data, offset) ==
    IF path \notin DOMAIN tmpfiles THEN KeyError(path)
    ELSE Result(NoError, <<>>, Len(data),
                [tmpfiles EXCEPT ![path].fh.buffer = Buffer(offset, data),
                                 ![path].dirty = TRUE],
                [disk EXCEPT ![tmpfiles[path].path] =
                     WriteAt(@, offset, data)],
                hdfs, <<>>, <<>>)

----------------------------------------------------------------------------
(* The state machine *)

\* the last upcall: its name and arguments, the error it raised, what it
\* returned
Upcall(op, path, offset, size, data, r) ==
    [op |-> op, path |-> path, new |-> path, offset |-> offset,
     size |-> size, data |-> data, err |-> r.err, ret |-> r.ret,
     rv |-> r.rv, st |-> r.st]

NoResult == [err |-> NoError, ret |-> <<>>, rv |-> 0, st |-> NoStat]

\* one upcall: the handler runs once, and the state is what it leaves
Apply(op, path, offset, size, data, result) ==
    \E r \in {result} :
        /\ upcall' = Upcall(op, path, offset, size, data, r)
        /\ tmpfiles' = r.tmpfiles
        /\ disk' = r.disk
        /\ hdfs' = r.hdfs
        /\ calls' = r.calls
        /\ http' = r.http

\* the mode FUSE hands to create: S_IFREG | 0644
Modes == {33188}

Inject == Faults \cup {NoFault}

\* faults are injected into the requests about "/a", the file under study;
\* those about "/b" the remote answers from its own state
InjectedAt(path) == path = "/a"

\* answers to the two requests of a put; the second is sent only when the
\* first is answered with a redirect
PutInject ==
    {<<NoFault, NoFault>>, <<R307NoLocation, NoFault>>}
    \cup {<<R403Access, NoFault>>}
    \cup {<<NoFault, f>> : f \in Debugged(R500)}

\* what the remote may hold when the filesystem is mounted
RemoteStates ==
    {h \in UNION {[S -> {File(c) : c \in Contents}] : S \in SUBSET Paths} :
        \A p \in DOMAIN h : h[p].content \in DataOf(p)}

NoScript == [pc |-> 0, path |-> "/a", data |-> <<>>, ok |-> TRUE]

NoProbe == [pc |-> 0]

\* what the remote may answer of a file's permission, owner and group: a
\* file of a local user, and one of a user and group unknown here
AttributeSet == {Attributes(<<6, 4, 0>>, "alice", "staff"), AnyAttributes}

\* answers to the three requests of a rename: GETFILESTATUS of the target,
\* DELETE of the target, RENAME.  The 403 "is non empty" is the answer to
\* the DELETE of a directory that has entries.
RenameInject ==
    {<<NoFault, NoFault, NoFault>>, <<NoFault, NoFault, R200False>>}
    \cup {<<R500, NoFault, NoFault>>}
    \cup {<<NoFault, f, NoFault>> : f \in Debugged(R403NonEmpty)}
    \cup {<<NoFault, NoFault, R403Access>>}

Init ==
    /\ hdfs \in RemoteStates
    /\ tmpfiles = <<>>
    /\ disk = <<>>
    /\ upcall = Upcall("init", "/a", 0, 0, <<>>, NoResult)
    /\ calls = <<>>
    /\ http = <<>>
    /\ script = NoScript
    /\ probe = NoProbe

\* the kernel sends read, write, flush, fsync and release only on a file it
\* holds open, and a file it holds open has an entry; create, open, truncate
\* and unlink take any path

IsDirty(path) == path \in DOMAIN tmpfiles /\ tmpfiles[path].dirty

\* the remote's own refusal of a create (the file is there) is a failure
\* too, and is handled under each outcome of the debugger stop
Create ==
    /\ \E path \in Paths, mode \in Modes,
          f \in Inject \cup Debugged(NoFault) :
           /\ IsFault(f) => InjectedAt(path)
           /\ (~IsFault(f) /\ f # NoFault) => path \in DOMAIN hdfs
           /\ Apply("create", path, mode, 0, <<>>, create(path, mode, f))
    /\ UNCHANGED <<script, probe>>

Open ==
    /\ \E path \in Paths, f \in Inject :
           /\ IsFault(f) => InjectedAt(path)
           /\ path \in DOMAIN tmpfiles => f = NoFault
           /\ Apply("open", path, 0, 0, <<>>, open(path, 0, f))
    /\ UNCHANGED <<script, probe>>

Read ==
    /\ \E path \in DOMAIN tmpfiles, size \in 1..MaxLen, offset \in 0..MaxLen :
           /\ size <= LenOf(path)
           /\ offset <= LenOf(path)
           /\ Apply("read", path, offset, size, <<>>,
                    read(path, size, offset))
    /\ UNCHANGED <<script, probe>>

Write ==
    /\ \E path \in DOMAIN tmpfiles, data \in Contents \ {<<>>},
          offset \in 0..MaxLen :
           /\ WriteAt(disk[tmpfiles[path].path], offset, data) \in DataOf(path)
           /\ Apply("write", path, offset, Len(data), data,
                    write(path, data, offset))
    /\ UNCHANGED <<script, probe>>

Truncate ==
    /\ \E path \in Paths, length \in 0..MaxLen :
           /\ length <= LenOf(path)
           /\ path \in DOMAIN tmpfiles =>
                  TruncateTo(disk[tmpfiles[path].path], length) \in DataOf(path)
           /\ Apply("truncate", path, 0, length, <<>>,
                    truncate(path, length))
    /\ UNCHANGED <<script, probe>>

Fsync ==
    /\ \E path \in DOMAIN tmpfiles, fs \in PutInject :
           /\ fs # <<NoFault, NoFault>> => InjectedAt(path)
           /\ ~IsDirty(path) => fs = <<NoFault, NoFault>>
           /\ Apply("fsync", path, 0, 0, <<>>, fsync(path, fs[1], fs[2]))
    /\ UNCHANGED <<script, probe>>

Flush ==
    /\ \E path \in DOMAIN tmpfiles, fs \in PutInject :
           /\ fs # <<NoFault, NoFault>> => InjectedAt(path)
           /\ ~IsDirty(path) => fs = <<NoFault, NoFault>>
           /\ Apply("flush", path, 0, 0, <<>>, flush(path, fs[1], fs[2]))
    /\ UNCHANGED <<script, probe>>

Release ==
    /\ \E path \in DOMAIN tmpfiles, fs \in PutInject :
           /\ fs # <<NoFault, NoFault>> => InjectedAt(path)
           /\ ~IsDirty(path) => fs = <<NoFault, NoFault>>
           /\ Apply("release", path, 0, 0, <<>>, release(path, fs[1], fs[2]))
    /\ UNCHANGED <<script, probe>>

Unlink ==
    /\ \E path \in Paths, f \in Inject \cup {R403NonEmpty} :
           /\ IsFault(f) => InjectedAt(path)
           /\ Apply("unlink", path, 0, 0, <<>>, unlink(path, f))
    /\ UNCHANGED <<script, probe>>

Getattr ==
    /\ \E path \in Paths, attributes \in AttributeSet, f \in Inject :
           /\ IsFault(f) => InjectedAt(path)
           /\ (f # NoFault \/ path \notin DOMAIN hdfs) =>
                  attributes = AnyAttributes
           /\ Apply("getattr", path, 0, 0, <<>>,
                    getattr(path, attributes, f))
    /\ UNCHANGED <<script, probe>>

\* the kernel does not send a rename of a path to itself; the content that
\* moves is one the target path takes
Rename ==
    /\ \E old \in Paths, new \in Paths, fs \in RenameInject :
           /\ old # new
           /\ old \in DOMAIN hdfs => hdfs[old].content \in DataOf(new)
           /\ (old \in DOMAIN tmpfiles \/ new \in DOMAIN tmpfiles) =>
                  fs = <<NoFault, NoFault, NoFault>>
           /\ new \notin DOMAIN hdfs => fs[2] = NoFault
           /\ \E r \in {rename(old, new, fs[1], fs[2], fs[3])} :
                  /\ upcall' = [Upcall("rename", old, 0, 0, <<>>, r)
                                   EXCEPT !.new = new]
                  /\ tmpfiles' = r.tmpfiles
                  /\ disk' = r.disk
                  /\ hdfs' = r.hdfs
                  /\ calls' = r.calls
                  /\ http' = r.http
    /\ UNCHANGED <<script, probe>>

\* another client of the remote rewrites a file that is open here (a rewrite
\* of a file that is not open leads to one of the initial remote states)
RemoteWrite ==
    /\ \E path \in DOMAIN tmpfiles, content \in Contents :
           /\ content \in DataOf(path)
           /\ IF path \in DOMAIN hdfs THEN hdfs[path].content # content
                                      ELSE TRUE
           /\ hdfs' = (path :> File(content)) @@ hdfs
           /\ upcall' = Upcall("remote write", path, 0, 0, content, NoResult)
    /\ calls' = <<>>
    /\ http' = <<>>
    /\ UNCHANGED <<tmpfiles, disk, script, probe>>

Next ==
    \/ Create
    \/ Open
    \/ Read
    \/ Write
    \/ Truncate
    \/ Fsync
    \/ Flush
    \/ Release
    \/ Unlink
    \/ Getattr
    \/ Rename
    \/ RemoteWrite

Spec == Init /\ [][Next]_vars

----------------------------------------------------------------------------
(* The create / write / release / open / read / release script of one file *)

InitScript ==
    /\ hdfs \in RemoteStates
    /\ tmpfiles = <<>>
    /\ disk = <<>>
    /\ upcall = Upcall("init", "/a", 0, 0, <<>>, NoResult)
    /\ calls = <<>>
    /\ http = <<>>
    /\ script \in {c \in [pc : {1}, path : Paths, data : Contents,
                           ok : {TRUE}] : c.data \in DataOf(c.path)}
    /\ probe = NoProbe

\* the script moves on; ok says that no step so far raised an error
Advance ==
    /\ script' = [script EXCEPT !.pc = @ + 1,
                                !.ok = @ /\ upcall'.err = NoError]
    /\ UNCHANGED probe

ScriptCreate ==
    /\ script.pc = 1
    /\ Apply("create", script.path, 420, 0, <<>>,
             create(script.path, 420, NoFault))
    /\ Advance

ScriptWrite ==
    /\ script.pc = 2
    /\ script.path \in DOMAIN tmpfiles
    /\ Apply("write", script.path, 0, Len(script.data), script.data,
             write(script.path, script.data, 0))
    /\ Advance

ScriptRelease ==
    /\ script.pc \in {3, 6}
    /\ script.path \in DOMAIN tmpfiles
    /\ Apply("release", script.path, 0, 0, <<>>,
             release(script.path, NoFault, NoFault))
    /\ Advance

ScriptOpen ==
    /\ script.pc = 4
    /\ Apply("open", script.path, 0, 0, <<>>, open(script.path, 0, NoFault))
    /\ Advance

ScriptRead ==
    /\ script.pc = 5
    /\ script.path \in DOMAIN tmpfiles
    /\ Apply("read", script.path, 0, Len(script.data), <<>>,
             read(script.path, Len(script.data), 0))
    /\ Advance

NextScript ==
    \/ ScriptCreate
    \/ ScriptWrite
    \/ ScriptRelease
    \/ ScriptOpen
    \/ ScriptRead

SpecScript == InitScript /\ [][NextScript]_vars

----------------------------------------------------------------------------
(* access of one file, over its mode and owner and the caller's identity *)

OctalDigits == 0..7

AccessAttributes ==
    {Attributes(<<u, g, o>>, owner, "staff") :
        u \in OctalDigits, g \in OctalDigits, o \in OctalDigits,
        owner \in {"alice", "hdfs"}}

InitAccess ==
    /\ hdfs = ("/a" :> File(<<>>))
    /\ tmpfiles = <<>>
    /\ disk = <<>>
    /\ upcall = Upcall("init", "/a", 0, 0, <<>>, NoResult)
    /\ calls = <<>>
    /\ http = <<>>
    /\ script = NoScript
    /\ probe \in [pc : {1}, uid : {1000, 2000}, gid : {1000, 2000},
                   amode : 0..7, attributes : AccessAttributes]

ProbeAccess ==
    /\ probe.pc = 1
    /\ Apply("access", "/a", probe.amode, 0, <<>>,
             access("/a", probe.amode, probe.uid, probe.gid,
                    probe.attributes, NoFault))
    /\ probe' = [probe EXCEPT !.pc = 2]
    /\ UNCHANGED script

NextAccess == ProbeAccess

SpecAccess == InitAccess /\ [][NextAccess]_vars

----------------------------------------------------------------------------
(* create of one file, over the permission bits of its mode *)

\* the permission bits S_IMODE keeps: 0 to 07777
Permissions == 0..4095

InitPermission ==
    /\ hdfs = <<>>
    /\ tmpfiles = <<>>
    /\ disk = <<>>
    /\ upcall = Upcall("init", "/a", 0, 0, <<>>, NoResult)
    /\ calls = <<>>
    /\ http = <<>>
    /\ script = NoScript
    /\ probe \in [pc : {1}, perm : Permissions]

\* FUSE hands create the mode S_IFREG | perm
ProbeCreate ==
    /\ probe.pc = 1
    /\ \E mode \in {BitOr(MODE_FLAGS["FILE"], probe.perm)} :
           Apply("create", "/a", mode, 0, <<>>, create("/a", mode, NoFault))
    /\ probe' = [probe EXCEPT !.pc = 2]
    /\ UNCHANGED script

NextPermission == ProbeCreate

SpecPermission == InitPermission /\ [][NextPermission]_vars

----------------------------------------------------------------------------
(* Claims *)

IsCached(path) == path \in DOMAIN tmpfiles

Staged(path) == disk[_tmp_path(path)]

PutCalls(cs) == SelectSeq(cs, LAMBDA c : c.name = "put")

\* raise_for_status lets 1xx, 2xx and 3xx pass
IsFailure(response) == response.status >= 400

\* what the client raises on a failed response
StatusErrors == {"WebHDFSFileNotFoundError"} \cup IpdbOutcomes

\* the cache without what the handles hold in their buffers: the entries,
\* their temp files, open handles and dirty flags
Unbuffered(tf) == [p \in DOMAIN tf |-> [tf[p] EXCEPT !.fh.buffer = NoBuffer]]

\* C1: the cache holds a path exactly when an open or create of it has
\* succeeded and no release of it has completed since; stated step by step:
\* a successful open or create puts the path in, a completed release takes
\* it out, and nothing else changes whether the path is in the cache.
C1_CacheIffOpened ==
    [][\A p \in Paths :
          (p \in DOMAIN tmpfiles') <=>
              IF /\ upcall'.path = p
                 /\ upcall'.op \in {"open", "create"}
                 /\ upcall'.err = NoError
              THEN TRUE
              ELSE IF /\ upcall'.path = p
                      /\ upcall'.op = "release"
                      /\ upcall'.err = NoError
              THEN FALSE
              ELSE p \in DOMAIN tmpfiles]_vars

\* C2: open of a path that already has an entry fails with EIO, sends no
\* request and leaves the entry, its temp file and its dirty flag as they
\* were.
C2_SecondOpenIsEIO ==
    [][(upcall'.op = "open" /\ IsCached(upcall'.path)) =>
          /\ upcall'.err = "EIO"
          /\ http' = <<>>
          /\ calls' = <<>>
          /\ tmpfiles' = tmpfiles
          /\ disk' = disk
          /\ hdfs' = hdfs]_vars

\* an open was refused with EIO on a path holding unpushed bytes
C2_Witness ==
    /\ upcall.op = "open"
    /\ upcall.err = "EIO"
    /\ IsDirty(upcall.path)
    /\ Staged(upcall.path) # <<>>
    /\ http = <<>>

\* C3: a write followed by the release of the same path, with no other
\* upcall on that path in between, makes exactly one put of that path, and
\* the put's payload is the whole temp file as the write left it.  Step by
\* step: a write leaves the entry dirty; what happens to other paths, and
\* what other clients do to the remote, leaves the entry and its temp file
\* alone; the release of a dirty entry makes exactly one put, of the whole
\* temp file, and a payload that reaches the datanode is that content.
C3_WriteThenReleasePutsOnce ==
    [][/\ (upcall'.op = "write" /\ upcall'.err = NoError) =>
              tmpfiles'[upcall'.path].dirty
       /\ \A p \in DOMAIN tmpfiles :
              (upcall'.path # p \/ upcall'.op = "remote write") =>
                  /\ p \in DOMAIN tmpfiles'
                  /\ tmpfiles'[p] = tmpfiles[p]
                  /\ disk'[_tmp_path(p)] = disk[_tmp_path(p)]
       /\ (upcall'.op = "release" /\ IsDirty(upcall'.path)) =>
              /\ Len(PutCalls(calls')) = 1
              /\ Len(calls') = 1
              /\ calls'[1].path = upcall'.path
              /\ calls'[1].data = Staged(upcall'.path)
              /\ Len(SelectSeq(http', LAMBDA q : q.target = "namenode")) = 1
              /\ \A i \in 1..Len(http') :
                     http'[i].target = "datanode" =>
                         http'[i].data = Staged(upcall'.path)]_vars

\* a release pushed written bytes with one put, and the remote holds them
C3_Witness ==
    /\ upcall.op = "release"
    /\ upcall.err = NoError
    /\ Len(PutCalls(calls)) = 1
    /\ calls[1].path = upcall.path
    /\ calls[1].data # <<>>
    /\ ~IsCached(upcall.path)
    /\ hdfs[upcall.path].content = calls[1].data

\* C4: create(P, 0644); write(P, D, 0); release(P); open(P);
\* read(P, len(D), 0) with no step failing: the read returns D.
C4_RoundTrip ==
    (script.pc = 6 /\ script.ok) =>
        (upcall.op = "read" /\ upcall.ret = script.data)

\* the script came through its read with a payload that is not empty
C4_Witness ==
    /\ script.pc = 6
    /\ script.ok
    /\ script.data # <<>>
    /\ upcall.op = "read"
    /\ upcall.ret = script.data

\* C5: server wins.  With a dirty entry for P and the remote content of P
\* rewritten, the flush or fsync that comes next refreshes first: it clears
\* dirty, takes the remote content into the temp file, makes no put, and
\* the remote keeps its newer content.
C5_ServerWins ==
    [][(/\ upcall.op = "remote write"
        /\ IsDirty(upcall.path)
        /\ upcall'.op \in {"flush", "fsync"}
        /\ upcall'.path = upcall.path
        /\ upcall'.err = NoError) =>
          /\ PutCalls(calls') = <<>>
          /\ hdfs' = hdfs
          /\ ~tmpfiles'[upcall.path].dirty
          /\ disk'[_tmp_path(upcall.path)] = hdfs[upcall.path].content]_vars

\* C6: a read refreshes first: after the remote content of an open path was
\* rewritten, the read returns the bytes [offset, offset+size) of the new
\* remote content; it is never longer than size and short only at the end
\* of the file.
C6_ReadSeesRemote ==
    [][(/\ upcall.op = "remote write"
        /\ IsCached(upcall.path)
        /\ upcall'.op = "read"
        /\ upcall'.path = upcall.path
        /\ upcall'.err = NoError) =>
          /\ upcall'.ret = ReadAt(hdfs[upcall.path].content,
                                  upcall'.offset, upcall'.size)
          /\ Len(upcall'.ret) <= upcall'.size]_vars

\* C7: a successful truncate of a cached path leaves the temp file with
\* length bytes and has pushed it: the remote content has length bytes.
C7_TruncatePushes ==
    [][(/\ upcall'.op = "truncate"
        /\ IsCached(upcall'.path)
        /\ upcall'.err = NoError) =>
          /\ Len(disk'[_tmp_path(upcall'.path)]) = upcall'.size
          /\ upcall'.path \in DOMAIN hdfs'
          /\ Len(hdfs'[upcall'.path].content) = upcall'.size]_vars

\* C8: truncate of a path that is not cached works on a transient entry:
\* it talks to the remote (refresh, push), a successful call leaves the
\* remote content with length bytes, and on every exit the cache and the
\* temp files are as before the call.
C8_TruncateUncached ==
    [][(upcall'.op = "truncate" /\ ~IsCached(upcall'.path)) =>
          /\ tmpfiles' = tmpfiles
          /\ disk' = disk
          /\ http' # <<>>
          /\ upcall'.err = NoError =>
                 /\ upcall'.path \in DOMAIN hdfs'
                 /\ Len(hdfs'[upcall'.path].content) = upcall'.size]_vars

\* C9: a put is two steps in order.  The first request is the PUT
\* op=CREATE&overwrite=true to the namenode, redirects not followed.  A
\* failure status there propagates and nothing else is sent; a missing
\* Location gives EIO and nothing else is sent; otherwise the payload goes
\* to the datanode as the second and last request, and when that succeeds
\* the put returns the payload's length.
C9_PutIsTwoSteps ==
    \A i \in 1..Len(calls) :
        calls[i].name = "put" =>
            /\ Len(calls) = 1
            /\ Len(http) = calls[i].sent
            /\ Len(http) >= 1
            /\ http[1].method = "PUT"
            /\ http[1].target = "namenode"
            /\ http[1].overwrite = "true"
            /\ ~http[1].allow_redirects
            /\ http[1].data = <<>>
            /\ \A j \in 1..Len(http) : http[j].target = "datanode" => j = 2
            /\ IsFailure(http[1].response) =>
                   /\ Len(http) = 1
                   /\ calls[i].exc \in StatusErrors
                   /\ upcall.err = calls[i].exc
            /\ (~IsFailure(http[1].response) /\ ~http[1].response.location) =>
                   /\ Len(http) = 1
                   /\ calls[i].exc = "EIO"
                   /\ upcall.err = "EIO"
            /\ (~IsFailure(http[1].response) /\ http[1].response.location) =>
                   /\ Len(http) = 2
                   /\ http[2].method = "PUT"
                   /\ http[2].target = "datanode"
                   /\ http[2].data = calls[i].data
                   /\ IF IsFailure(http[2].response)
                      THEN calls[i].exc \in StatusErrors
                      ELSE /\ calls[i].exc = NoError
                           /\ calls[i].rv = Len(calls[i].data)

\* a put went through both steps with a payload that is not empty
C9_Witness ==
    /\ Len(calls) = 1
    /\ calls[1].name = "put"
    /\ calls[1].exc = NoError
    /\ calls[1].rv = Len(calls[1].data)
    /\ calls[1].data # <<>>
    /\ Len(http) = 2
    /\ http[1].response.location

EndsWith(message, suffix) ==
    Len(message) > 0 /\ message[Len(message)] = suffix

\* the kinds of the taxonomy, by status and error body
Taxonomy(response) ==
    IF response.status = 404 THEN "NotFound"
    ELSE IF /\ response.status = 403
            /\ response.exception # ""
            /\ EndsWith(response.message, " is non empty")
    THEN "DirectoryNotEmpty"
    ELSE IF /\ response.status = 403
            /\ response.exception = "AccessControlException"
    THEN "PermissionDenied"
    ELSE "Generic"

\* the kind an exception class of the client stands for; what the debugger
\* stop raises in place of WebHDFSError (ImportError, BdbQuit) is no kind
KindOf(exc) ==
    IF exc = "WebHDFSFileNotFoundError" THEN "NotFound"
    ELSE IF exc = "WebHDFSError" THEN "Generic"
    ELSE exc

RECURSIVE SentUpTo(_)
SentUpTo(i) == IF i = 0 THEN 0 ELSE SentUpTo(i - 1) + calls[i].sent

\* C10: a failed response is classified by the taxonomy: 404 NotFound, 403
\* with a message ending in " is non empty" DirectoryNotEmpty, else 403
\* with AccessControlException PermissionDenied, everything else Generic;
\* the call that got the response raises exactly that kind.
C10_Classification ==
    \A i \in 1..Len(calls) :
        (calls[i].sent > 0 /\ IsFailure(http[SentUpTo(i)].response)) =>
            KindOf(calls[i].exc) = Taxonomy(http[SentUpTo(i)].response)

\* the answer to the i-th client call of the last upcall (its last request)
AnswerTo(i) == http[SentUpTo(i)].response

IsNonEmpty(response) ==
    response.status = 403 /\ EndsWith(response.message, " is non empty")

\* C11: rename(old, new) with new on the remote deletes new first and only
\* then sends the RENAME; when the delete answers that new is a directory
\* that is not empty, rename fails with ENOTEMPTY, no RENAME is sent and old
\* stays; when the RENAME answers boolean false, rename fails with
\* EREMOTEIO.
C11_RenameOverTarget ==
    [][(upcall'.op = "rename" /\ calls' # <<>>) =>
          /\ calls'[1].name = "getattr" /\ calls'[1].path = upcall'.new
          /\ calls'[1].exc = NoError =>
                 /\ Len(calls') >= 2
                 /\ calls'[2].name = "delete"
                 /\ calls'[2].path = upcall'.new
                 /\ \A i \in 1..Len(calls') :
                        calls'[i].name = "rename" => i = 3
                 /\ IsNonEmpty(http'[2].response) =>
                        /\ upcall'.err = "ENOTEMPTY"
                        /\ \A i \in 1..Len(calls') :
                               calls'[i].name # "rename"
                        /\ hdfs' = hdfs
          /\ \A i \in 1..Len(calls') :
                 (/\ calls'[i].name = "rename"
                  /\ ~IsFailure(http'[i].response)
                  /\ ~http'[i].response.boolean) =>
                     upcall'.err = "EREMOTEIO"]_vars

\* C12: a delete, rename or mkdir of the client whose answer carries boolean
\* false reaches the caller of the upcall as EREMOTEIO.
C12_BooleanFalseIsEREMOTEIO ==
    \A i \in 1..Len(calls) :
        (/\ calls[i].name \in {"delete", "rename", "mkdir"}
         /\ ~IsFailure(AnswerTo(i))
         /\ ~AnswerTo(i).boolean) => upcall.err = "EREMOTEIO"

\* the octal digit of a permission string that speaks for a class
DigitOf(permission, class) ==
    IF class = "user" THEN permission[1]
    ELSE IF class = "group" THEN permission[2]
    ELSE permission[3]

\* whether a class grants R (4), W (2) or X (1)
Grants(permission, class, b) == (DigitOf(permission, class) \div b) % 2 = 1

\* the classes that apply to a caller of a file owned by fuid:fgid
Applicable(uid, gid, fuid, fgid) ==
    {c \in {"user", "group", "other"} :
        \/ c = "other"
        \/ c = "group" /\ gid = fgid
        \/ c = "user" /\ uid = fuid}

Allowed(permission, fuid, fgid, uid, gid, amode) ==
    \A b \in {4, 2, 1} :
        (amode \div b) % 2 = 1 =>
            \E c \in Applicable(uid, gid, fuid, fgid) :
                Grants(permission, c, b)

\* a file alice:staff is 1000:1000; hdfs is no local user, so uid 0
FileUid(attributes) == IF attributes.owner = "alice" THEN 1000 ELSE 0

\* C13: access succeeds iff for each requested bit of R_OK, W_OK, X_OK one
\* applicable class grants it (other always applies, group when the gids
\* agree, user when the uids agree), and fails with EACCES otherwise.  For
\* mode 0640 owned 1000:1000, caller 2000:1000 gets R_OK and not W_OK, and
\* caller 2000:2000 is refused R_OK.
C13_Access ==
    probe.pc = 2 =>
        /\ upcall.op = "access"
        /\ upcall.err \in {NoError, "EACCES"}
        /\ upcall.err = NoError <=>
               Allowed(probe.attributes.permission,
                       FileUid(probe.attributes), 1000,
                       probe.uid, probe.gid, probe.amode)
        /\ (/\ probe.attributes = Attributes(<<6, 4, 0>>, "alice", "staff")
            /\ probe.uid = 2000) =>
               /\ (probe.gid = 1000 /\ probe.amode = 4) =>
                      upcall.err = NoError
               /\ (probe.gid = 1000 /\ probe.amode = 2) =>
                      upcall.err = "EACCES"
               /\ (probe.gid = 2000 /\ probe.amode = 4) =>
                      upcall.err = "EACCES"

\* the group lets a caller that is not the owner read, where other would not
C13_Witness ==
    /\ probe.pc = 2
    /\ probe.attributes = Attributes(<<6, 4, 0>>, "alice", "staff")
    /\ probe.uid = 2000
    /\ probe.gid = 1000
    /\ probe.amode = 4
    /\ upcall.op = "access"
    /\ upcall.err = NoError

\* the octal representation of an integer, no prefix: "0" for zero
OctalString(n) == IF n = 0 THEN <<0>> ELSE OctDigits(n)

\* C14: for every perm in 0..07777 the permission parameter create sends
\* is the octal representation of perm with no prefix: 493 goes out as
\* "755" and create(P, 0600) sends permission=600.
C14_PermissionEncoding ==
    probe.pc = 2 =>
        /\ Len(http) = 1
        /\ http[1].op = "CREATE"
        /\ http[1].permission = OctalString(probe.perm)
        /\ probe.perm = 493 => http[1].permission = <<7, 5, 5>>
        /\ probe.perm = 384 => http[1].permission = <<6, 0, 0>>

\* C15: a successful open of a path that had no entry leaves a clean entry
\* whose temp file holds the remote content of the path at that moment, and
\* a read at offset 0 right after it returns the first bytes of the file.
C15_OpenFillsClean ==
    [][/\ (/\ upcall'.op = "open"
           /\ upcall'.err = NoError
           /\ ~IsCached(upcall'.path)) =>
              /\ upcall'.path \in DOMAIN tmpfiles'
              /\ ~tmpfiles'[upcall'.path].dirty
              /\ upcall'.path \in DOMAIN hdfs'
              /\ disk'[_tmp_path(upcall'.path)] =
                     hdfs'[upcall'.path].content
       /\ (/\ upcall.op = "open"
           /\ upcall.err = NoError
           /\ upcall'.op = "read"
           /\ upcall'.path = upcall.path
           /\ upcall'.offset = 0) =>
              upcall'.ret =
                  SubSeq(hdfs[upcall.path].content, 1,
                         Min(upcall'.size, Len(hdfs[upcall.path].content)))
      ]_vars

\* an open has fetched a file that is not empty
C15_Witness ==
    /\ upcall.op = "open"
    /\ upcall.err = NoError
    /\ IsCached(upcall.path)
    /\ ~IsDirty(upcall.path)
    /\ Staged(upcall.path) # <<>>
    /\ Staged(upcall.path) = hdfs[upcall.path].content

\* C16: getattr fails with ENOENT exactly when the GETFILESTATUS is
\* answered 404; no other failure of the remote comes out as ENOENT, and
\* getattr leaves the cache and every temp file as they were.
C16_GetattrENOENT ==
    [][upcall'.op = "getattr" =>
          /\ Len(http') = 1
          /\ http'[1].op = "GETFILESTATUS"
          /\ upcall'.err = "ENOENT" <=> http'[1].response.status = 404
          /\ (IsFailure(http'[1].response)
                 /\ http'[1].response.status # 404) =>
                 upcall'.err \notin {NoError, "ENOENT"}
          /\ tmpfiles' = tmpfiles
          /\ disk' = disk]_vars

\* a getattr of a missing path came out as ENOENT next to an open file
C16_Witness ==
    /\ upcall.op = "getattr"
    /\ upcall.err = "ENOENT"
    /\ http[1].response.status = 404
    /\ tmpfiles # <<>>

\* C17: a rename whose old or new path has an entry is rejected before any
\* request: nothing reaches the remote and the cache is unchanged.
C17_RenameOfCached ==
    [][(/\ upcall'.op = "rename"
        /\ (IsCached(upcall'.path) \/ IsCached(upcall'.new))) =>
          /\ upcall'.err # NoError
          /\ http' = <<>>
          /\ calls' = <<>>
          /\ hdfs' = hdfs
          /\ tmpfiles' = tmpfiles
          /\ disk' = disk]_vars

\* a rename onto a path that is open and on the remote was rejected
C17_Witness ==
    /\ upcall.op = "rename"
    /\ upcall.err = "AssertionError"
    /\ IsCached(upcall.new)
    /\ ~IsCached(upcall.path)
    /\ upcall.new \in DOMAIN hdfs
    /\ upcall.path \in DOMAIN hdfs
    /\ http = <<>>

\* C18: on an open path, a successful read, fsync or flush leaves the entry
\* clean whatever it was before, and a successful write or truncate leaves
\* it dirty.
C18_OpenFileStates ==
    [][(/\ IsCached(upcall'.path)
        /\ upcall'.err = NoError
        /\ upcall'.path \in DOMAIN tmpfiles') =>
          /\ upcall'.op \in {"read", "fsync", "flush"} =>
                 ~tmpfiles'[upcall'.path].dirty
          /\ upcall'.op \in {"write", "truncate"} =>
                 tmpfiles'[upcall'.path].dirty]_vars

\* C19: every path in the cache has its temp file on local storage and an
\* open handle on it, whatever upcall came last (a failed open, a failed
\* release, the open of another path).
C19_EntryHasOpenTmpfile ==
    \A p \in DOMAIN tmpfiles :
        /\ tmpfiles[p].path = _tmp_path(p)
        /\ tmpfiles[p].path \in DOMAIN disk
        /\ ~tmpfiles[p].fh.closed
        /\ tmpfiles[p].fh.name = tmpfiles[p].path

\* a release failed on its push next to a second open path; both entries
\* are there, the failed one with its unpushed bytes
C19_Witness ==
    /\ upcall.op = "release"
    /\ upcall.err # NoError
    /\ IsDirty(upcall.path)
    /\ Staged(upcall.path) # <<>>
    /\ Cardinality(DOMAIN tmpfiles) = 2
    /\ \A p \in DOMAIN tmpfiles : ~tmpfiles[p].fh.closed

\* C20: a dirty entry's temp file differs in at least one byte from the
\* remote content last synced for the path.  Stated at the step after a
\* sync, where the temp file is that content: a write that follows the
\* successful open or create of its path, or a flush or fsync that pushed,
\* leaves the entry dirty only if it changed a byte.
C20_DirtyMeansDiffers ==
    [][(/\ \/ upcall.op \in {"open", "create"}
           \/ upcall.op \in {"flush", "fsync"} /\ calls # <<>>
        /\ upcall.err = NoError
        /\ upcall'.op = "write"
        /\ upcall'.path = upcall.path
        /\ upcall'.err = NoError) =>
          (tmpfiles'[upcall.path].dirty =>
               disk'[_tmp_path(upcall.path)] # disk[_tmp_path(upcall.path)])
      ]_vars

\* C21: an entry is inserted only where there is none: neither create nor
\* open replaces the entry of a path that is open, so a create of an open
\* path keeps its dirty flag and its staged bytes.
C21_InsertOnlyWhenAbsent ==
    [][(/\ upcall'.op \in {"create", "open"}
        /\ IsCached(upcall'.path)) =>
          /\ upcall'.path \in DOMAIN tmpfiles'
          /\ Unbuffered(tmpfiles')[upcall'.path]
                 = Unbuffered(tmpfiles)[upcall'.path]
          /\ disk'[_tmp_path(upcall'.path)] = disk[_tmp_path(upcall'.path)]
      ]_vars

\* C22: flush, fsync and release of a clean entry make no put and leave the
\* remote as it is; and an entry turns dirty only by a write of its path,
\* so a path opened or created and never written nor truncated causes no
\* put up to the end of its release.
C22_CleanMeansNoPut ==
    [][/\ (/\ upcall'.op \in {"flush", "fsync", "release"}
           /\ IsCached(upcall'.path)
           /\ ~IsDirty(upcall'.path)) =>
              /\ upcall'.err = NoError
              /\ calls' = <<>>
              /\ http' = <<>>
              /\ hdfs' = hdfs
       /\ \A p \in Paths :
              (~IsDirty(p) /\ p \in DOMAIN tmpfiles' /\ tmpfiles'[p].dirty)
                  => (upcall'.op = "write" /\ upcall'.path = p)]_vars

\* a file was opened with content and released untouched: no request, and
\* the remote still holds the content
C22_Witness ==
    /\ upcall.op = "release"
    /\ upcall.err = NoError
    /\ ~IsCached(upcall.path)
    /\ calls = <<>>
    /\ http = <<>>
    /\ upcall.path \in DOMAIN hdfs
    /\ hdfs[upcall.path].content # <<>>

\* C23: when the put of a flush, fsync or release of a dirty entry fails,
\* the error reaches the caller and the entry stays as it was: in the
\* cache, dirty, its temp file there with the same bytes; and every flush,
\* fsync or release of a dirty entry puts the whole temp file, so the next
\* one pushes the same content again.
C23_FailedPutKeepsEntry ==
    [][(/\ upcall'.op \in {"flush", "fsync", "release"}
        /\ IsDirty(upcall'.path)) =>
          /\ Len(calls') = 1
          /\ calls'[1].name = "put"
          /\ calls'[1].path = upcall'.path
          /\ calls'[1].data = Staged(upcall'.path)
          /\ upcall'.err = calls'[1].exc
          /\ calls'[1].exc # NoError =>
                 /\ Unbuffered(tmpfiles') = Unbuffered(tmpfiles)
                 /\ disk' = disk
                 /\ tmpfiles'[upcall'.path].dirty
                 /\ ~tmpfiles'[upcall'.path].fh.closed]_vars

\* a flush failed at the datanode with unpushed bytes, which are still
\* staged and marked
C23_Witness ==
    /\ upcall.op = "flush"
    /\ upcall.err = "WebHDFSError"
    /\ Len(http) = 2
    /\ IsDirty(upcall.path)
    /\ Staged(upcall.path) # <<>>
    /\ calls[1].data = Staged(upcall.path)

\* C24: an open or a create that fails leaves the cache as it was: no
\* entry of the path stays behind, and a later open of the path is not
\* refused with EIO for it.
C24_FailedOpenLeavesNoEntry ==
    [][(/\ upcall'.op \in {"open", "create"}
        /\ upcall'.err # NoError) =>
          /\ tmpfiles' = tmpfiles
          /\ disk' = disk]_vars

\* C25: after a successful unlink the path stays absent on the remote until
\* a create of it or a rename onto it; stated for the upcall that follows
\* the unlink: a flush, fsync or release of the handle on the path, opened
\* and written before, does not bring the path back.
C25_UnlinkedStaysAbsent ==
    [][(/\ upcall.op = "unlink"
        /\ upcall.err = NoError
        /\ upcall.path \notin DOMAIN hdfs
        /\ upcall'.op \in {"flush", "fsync", "release"}
        /\ upcall'.path = upcall.path) =>
          upcall.path \notin DOMAIN hdfs']_vars

====
